---- MODULE Spec2Model ----
(***************************************************************************)
(* Model of the hustlrs backend REST facade: the requireAuth / requireRole *)
(* middleware (src/src/middleware/auth.middleware.js), the express app     *)
(* (src/unnamed/part_001) and the auth routes (src/src/config/supabase.js).*)
(*                                                                         *)
(* One request is followed through the middleware stack at a time; the     *)
(* identity provider and the profile store are the environment, and every  *)
(* call to them is answered by one of the outcomes the client library can  *)
(* produce (a result, an error result, or a thrown exception).             *)
(***************************************************************************)
EXTENDS Integers, Sequences, FiniteSets, TLC

\* ---------------------------------------------------------------- bounds
MaxHdr == 4         \* longest Authorization header, in lexical elements

\* ------------------------------------------------------- basic vocabulary
Roles == {"CUSTOMER", "HUSTLER", "ADMIN"}
Users == {"u1", "u2", "u3"}

\* An Authorization header is a sequence of lexical elements: the single
\* space " " or a word without spaces.  Two words are never adjacent (they
\* would be one word).
Words == {"Bearer", "abc", "xyz"}
Elems == Words \cup {" "}
NoHeader == <<"<absent>">>

WellFormed(h) ==
    \A i \in 1..(Len(h) - 1) : ~(h[i] \in Words /\ h[i + 1] \in Words)

Headers ==
    {NoHeader} \cup
    {h \in UNION {[1..n -> Elems] : n \in 0..MaxHdr} : WellFormed(h)}

\* A header test that only looks for a space somewhere in the header.
ContainsSpace(h) ==
    /\ h # NoHeader
    /\ \E i \in 1..Len(h) : h[i] = " "

\* authHeader.startsWith('Bearer ')
StartsWithBearer(h) ==
    /\ h # NoHeader
    /\ Len(h) >= 2
    /\ h[1] = "Bearer"
    /\ h[2] = " "

\* h.split(' '): the pieces between the spaces; a piece is a sequence of
\* elements (the empty sequence is the empty string).
RECURSIVE SplitFrom(_, _, _)
SplitFrom(h, i, piece) ==
    IF i > Len(h) THEN <<piece>>
    ELSE IF h[i] = " " THEN <<piece>> \o SplitFrom(h, i + 1, <<>>)
    ELSE SplitFrom(h, i + 1, Append(piece, h[i]))

Split(h) == SplitFrom(h, 1, <<>>)

\* const token = authHeader.split(' ')[1]
Undefined == <<"<undefined>">>
TokenOf(h) == IF Len(Split(h)) >= 2 THEN Split(h)[2] ELSE Undefined

\* ------------------------------------------------------- identity provider
\* The tokens the provider has issued and the user each belongs to.
IssuedTokens == {<<"abc">>, <<"xyz">>}
TokenUser(t) == IF t = <<"abc">> THEN "u1" ELSE "u2"
ProviderUser(u) == [id |-> u, email |-> u \o "@example.com"]

NoUser == [id |-> "<none>"]
NoRes == [status |-> 0]

\* A verification that answers from the tokens it has seen issued, without
\* asking the provider whether they are still valid.
GetUserOutcomesCached(t, valid) ==
    (IF t \in IssuedTokens THEN {"user"} ELSE {"invalid", "nouser"})
        \cup {"transient", "throw"}

\* supabase.auth.getUser(token): what one call can come back with.
\*   "user"       data.user set, no error
\*   "invalid"    error result (invalid / expired / malformed), user null
\*   "nouser"     no error and user null
\*   "transient"  network / service failure returned as an error result
\*   "throw"      the call rejects
GetUserOutcomes(t, valid) ==
    (IF t \in valid THEN {"user"} ELSE {"invalid", "nouser"})
        \cup {"transient", "throw"}

\* supabase.from('profiles').select('user_type').eq('id', id).single()
\*   "row"    one row found
\*   "norow"  error result: no row matched
\*   "error"  any other error result
\*   "throw"  the call rejects
SingleOutcomes(id, store) ==
    (IF store[id] \in Roles THEN {"row"} ELSE {"norow"})
        \cup {"error", "throw"}

\* ------------------------------------------------------------- responses
\* A JSON body is kept as its status, its success flag, the set of keys that
\* are present after serialisation (a key whose value is undefined is
\* dropped by JSON.stringify) and the text of its error key.
Json(status, success, keys, error) ==
    [status |-> status, success |-> success, keys |-> keys, error |-> error]

Fail(status, error) == Json(status, FALSE, {"success", "error"}, error)

VARIABLES
    pc,          \* where the request in flight is in the middleware stack
    req,         \* the request in flight
    reqUser,     \* req.user
    res,         \* the response sent (NoRes while none)
    sender,      \* which middleware / handler sent it
    nextCalls,   \* calls of next() by requireAuth and by requireRole
    handlerRuns, \* runs of the route handler for this request
    verify,      \* getUser calls of this request: count, token, outcome, user
    lookup,      \* profile lookups of this request: count, outcome, role
    err,         \* the error handed to next(err), "none" while none
    validTokens, \* provider: tokens currently valid
    profiles,    \* profile store: user -> role, or "none"
    principals,  \* principals attached by requireAuth so far: token,
                 \* principal, and whether on a first or a repeated run
    nodeEnv,     \* process.env.NODE_ENV
    service,     \* AuthService work of this request: the provider and store
                 \* calls made, whether an account was created, and the
                 \* user whose data the response carries
    session,     \* the session held by the shared provider client
    accounts     \* identity provider: users that have an account

vars == <<pc, req, reqUser, res, sender, nextCalls, handlerRuns, verify,
          lookup, err, validTokens, profiles, principals, nodeEnv, service,
          session, accounts>>

environment == <<validTokens, profiles, nodeEnv>>

NoRequest == [kind |-> "none"]
NoVerify == [calls |-> 0, token |-> <<"<none>">>, outcome |-> "none",
             user |-> NoUser]
NoLookup == [calls |-> 0, outcome |-> "none", role |-> "none"]
NoNext == [auth |-> 0, role |-> 0]
NoService == [calls |-> <<>>, created |-> FALSE, dataOf |-> "none"]

\* What the stack outside AuthService leaves alone.
client == <<service, session, accounts>>

Init ==
    /\ pc = "idle"
    /\ req = NoRequest
    /\ reqUser = NoUser
    /\ res = NoRes
    /\ sender = "none"
    /\ nextCalls = NoNext
    /\ handlerRuns = 0
    /\ verify = NoVerify
    /\ lookup = NoLookup
    /\ err = "none"
    /\ validTokens = IssuedTokens
    /\ profiles = [u \in Users |-> IF u = "u1" THEN "HUSTLER"
                                 ELSE IF u = "u2" THEN "ADMIN" ELSE "none"]
    /\ principals = {}
    /\ nodeEnv \in {"development", "production"}
    /\ service = NoService
    /\ session = "none"
    /\ accounts = {"u1", "u2"}

\* res.status(..).json(..): the response goes out and the stack stops.
Respond(who, r) ==
    /\ res' = r
    /\ sender' = who
    /\ pc' = "done"

\* ----------------------------------------------------- protected route chain
\* A route mounted as  [requireAuth,] requireRole(roles), handler.
ReceiveChain ==
    /\ pc = "idle"
    /\ \E h \in Headers, roles \in SUBSET Roles, withAuth \in BOOLEAN :
          /\ req' = [kind |-> "chain", header |-> h, roles |-> roles,
                     withAuth |-> withAuth]
          /\ pc' = IF withAuth THEN "requireAuth" ELSE "requireRole"
    /\ UNCHANGED <<reqUser, res, sender, nextCalls, handlerRuns, verify,
                   lookup, err, environment, principals>>
    /\ UNCHANGED client

\* A test that looks at the error only: if (error)
RejectedOnError(out) == out \in {"invalid", "transient"}

\* if (error || !user): the answers of getUser that requireAuth rejects
Rejected(out) == out \in {"invalid", "nouser", "transient"}

\* An assignment that attaches one fixed user whatever the provider said.
AttachFixedUser(user) == ProviderUser("u1")

\* req.user = user
AttachUser(user) == user

\* requireAuth
RequireAuth ==
    /\ pc = "requireAuth"
    /\ IF ~StartsWithBearer(req.header)
       THEN /\ Respond("requireAuth", Fail(401, "No token, authorization denied"))
            /\ UNCHANGED <<reqUser, nextCalls, verify, principals>>
       ELSE LET token == TokenOf(req.header) IN
            \E out \in GetUserOutcomes(token, validTokens) :
              LET user == IF out = "user" THEN ProviderUser(TokenUser(token))
                                          ELSE NoUser
              IN
              /\ verify' = [calls |-> verify.calls + 1, token |-> token,
                            outcome |-> out, user |-> user]
              /\ IF out = "throw"
                 THEN /\ Respond("requireAuth",
                                 Fail(500, "Server error during authentication"))
                      /\ UNCHANGED <<reqUser, nextCalls, principals>>
                 ELSE IF Rejected(out)
                 THEN /\ Respond("requireAuth", Fail(401, "Token is not valid"))
                      /\ UNCHANGED <<reqUser, nextCalls, principals>>
                 ELSE /\ reqUser' = AttachUser(user)
                      /\ nextCalls' = [nextCalls EXCEPT !.auth = @ + 1]
                      /\ principals' = principals \cup
                            {[token |-> token, principal |-> AttachUser(user),
                              run |-> IF \E p \in principals : p.token = token
                                      THEN 2 ELSE 1]}
                      /\ pc' = "requireRole"
                      /\ UNCHANGED <<res, sender>>
    /\ UNCHANGED <<req, handlerRuns, lookup, err, environment>>
    /\ UNCHANGED client

\* A test that misses the no-row result.
ProfileMissingOnError(out) == out = "error"

\* if (error || !profile)
ProfileMissing(out) == out \in {"norow", "error"}

\* A membership test without the roles.length guard.
InsufficientNoLength(roles, role) == role \notin roles

\* A membership test that lets every role through.
InsufficientNever(roles, role) == FALSE

\* roles.length && !roles.includes(profile.user_type)
Insufficient(roles, role) == roles # {} /\ role \notin roles

\* An assignment that attaches the default role instead of the stored one.
AttachDefaultRole(user, role) ==
    [id |-> user.id, email |-> user.email, role |-> "CUSTOMER"]

\* req.user.role = profile.user_type
AttachRole(user, role) ==
    [id |-> user.id, email |-> user.email, role |-> role]

\* requireRole(roles)
RequireRole ==
    /\ pc = "requireRole"
    /\ IF reqUser = NoUser
       THEN /\ Respond("requireRole", Fail(401, "Authentication required"))
            /\ UNCHANGED <<reqUser, nextCalls, lookup>>
       ELSE \E out \in SingleOutcomes(reqUser.id, profiles) :
              LET role == IF out = "row" THEN profiles[reqUser.id] ELSE "none" IN
              /\ lookup' = [calls |-> lookup.calls + 1, outcome |-> out,
                            role |-> role]
              /\ IF out = "throw"
                 THEN /\ Respond("requireRole",
                                 Fail(500, "Server error during authorization"))
                      /\ UNCHANGED <<reqUser, nextCalls>>
                 ELSE IF ProfileMissing(out)
                 THEN /\ Respond("requireRole",
                                 Fail(403, "Access denied. User profile not found."))
                      /\ UNCHANGED <<reqUser, nextCalls>>
                 ELSE IF Insufficient(req.roles, role)
                 THEN /\ Respond("requireRole",
                                 Fail(403, "Access denied. Insufficient permissions."))
                      /\ UNCHANGED <<reqUser, nextCalls>>
                 ELSE /\ reqUser' = AttachRole(reqUser, role)
                      /\ nextCalls' = [nextCalls EXCEPT !.role = @ + 1]
                      /\ pc' = "handler"
                      /\ UNCHANGED <<res, sender>>
    /\ UNCHANGED <<req, handlerRuns, verify, err, environment, principals>>
    /\ UNCHANGED client

\* the route handler mounted behind the two middleware
ChainHandler ==
    /\ pc = "handler"
    /\ handlerRuns' = handlerRuns + 1
    /\ Respond("handler", Json(200, TRUE, {"success", "data"}, ""))
    /\ UNCHANGED <<req, reqUser, nextCalls, verify, lookup, err, environment,
                   principals>>
    /\ UNCHANGED client

\* Errors a route handler can hand to next(err), by err.name.
HandlerErrors == {"Error", "TypeError", "JsonWebTokenError", "TokenExpiredError"}

\* the route handler fails and its error goes to the error middleware
ChainHandlerThrows ==
    /\ pc = "handler"
    /\ handlerRuns' = handlerRuns + 1
    /\ \E name \in HandlerErrors : err' = name
    /\ pc' = "errorHandler"
    /\ UNCHANGED <<req, reqUser, res, sender, nextCalls, verify, lookup,
                   environment, principals>>
    /\ UNCHANGED client

\* ------------------------------------------------------------ express app
Methods == {"GET", "POST", "HEAD", "OPTIONS"}
Paths == {"/api/health", "/api/auth/signup", "/api/auth/signin",
          "/api/auth/signout", "/api/auth/session", "/api/auth/user",
          "/api/auth/reset-password", "/api/auth/other", "/other"}

\* Errors the body parsers hand to next(err), by err.name.
ParseErrors == {"SyntaxError"}

\* The fields of a request body, as far as the validators look at them.
Bodies ==
    [email : {"ok", "bad"}, password : {"absent", "short", "ok"},
     firstName : BOOLEAN, lastName : BOOLEAN,
     userType : {"CUSTOMER", "HUSTLER", "ADMIN", "absent"}]

EmptyBody == [email |-> "bad", password |-> "absent", firstName |-> FALSE,
              lastName |-> FALSE, userType |-> "absent"]

\* app.get / router.post / router.get: a GET route also serves HEAD.
IsGet(m) == m \in {"GET", "HEAD"}

\* The route table with GET /session registered under POST.
RouteOfSessionPost(m, p) ==
    CASE p = "/api/health" /\ IsGet(m) -> "health"
      [] p = "/api/auth/signup" /\ m = "POST" -> "signup"
      [] p = "/api/auth/signin" /\ m = "POST" -> "signin"
      [] p = "/api/auth/signout" /\ m = "POST" -> "signout"
      [] p = "/api/auth/session" /\ m = "POST" -> "session"
      [] p = "/api/auth/user" /\ IsGet(m) -> "user"
      [] p = "/api/auth/reset-password" /\ m = "POST" -> "reset-password"
      [] OTHER -> "none"

RouteOf(m, p) ==
    CASE p = "/api/health" /\ IsGet(m) -> "health"
      [] p = "/api/auth/signup" /\ m = "POST" -> "signup"
      [] p = "/api/auth/signin" /\ m = "POST" -> "signin"
      [] p = "/api/auth/signout" /\ m = "POST" -> "signout"
      [] p = "/api/auth/session" /\ IsGet(m) -> "session"
      [] p = "/api/auth/user" /\ IsGet(m) -> "user"
      [] p = "/api/auth/reset-password" /\ m = "POST" -> "reset-password"
      [] OTHER -> "none"

Validated == {"signup", "signin", "reset-password"}

\* The chains with the signup password checked for presence only.
ValidationErrorsNoLength(route, b) ==
    CASE route = "signup" ->
            \/ b.email # "ok"
            \/ b.password = "absent"
            \/ ~b.firstName
            \/ ~b.lastName
            \/ b.userType \notin {"CUSTOMER", "HUSTLER"}
      [] route = "signin" -> b.email # "ok" \/ b.password = "absent"
      [] route = "reset-password" -> b.email # "ok"
      [] OTHER -> FALSE

\* The express-validator chains of the three validated routes.
ValidationErrors(route, b) ==
    CASE route = "signup" ->
            \/ b.email # "ok"
            \/ b.password # "ok"
            \/ ~b.firstName
            \/ ~b.lastName
            \/ b.userType \notin {"CUSTOMER", "HUSTLER"}
      [] route = "signin" -> b.email # "ok" \/ b.password = "absent"
      [] route = "reset-password" -> b.email # "ok"
      [] OTHER -> FALSE

\* !email || !password || !firstName || !lastName || !userType
MissingFields(b) ==
    \/ b.password = "absent"
    \/ ~b.firstName
    \/ ~b.lastName
    \/ b.userType = "absent"

ReceiveApp ==
    /\ pc = "idle"
    /\ \E m \in Methods, p \in Paths, f \in ParseErrors \cup {"none"},
          b \in Bodies, w \in Users :
          /\ RouteOf(m, p) \notin Validated => (b = EmptyBody /\ w = "u1")
          /\ req' = [kind |-> "app", method |-> m, path |-> p, fault |-> f,
                     body |-> b, who |-> w]
    /\ pc' = "cors"
    /\ UNCHANGED <<reqUser, res, sender, nextCalls, handlerRuns, verify,
                   lookup, err, environment, principals>>
    /\ UNCHANGED client

\* app.use(cors({origin, credentials})): a preflight is answered here.
Cors ==
    /\ pc = "cors"
    /\ IF req.method = "OPTIONS"
       THEN Respond("cors", Json(204, FALSE, {}, ""))
       ELSE pc' = "bodyParser" /\ UNCHANGED <<res, sender>>
    /\ UNCHANGED <<req, reqUser, nextCalls, handlerRuns, verify, lookup, err,
                   environment, principals>>
    /\ UNCHANGED client

\* app.use(express.json()); app.use(express.urlencoded({extended: true}))
BodyParser ==
    /\ pc = "bodyParser"
    /\ IF req.fault # "none"
       THEN err' = req.fault /\ pc' = "errorHandler"
       ELSE err' = err /\ pc' = "router"
    /\ UNCHANGED <<req, reqUser, res, sender, nextCalls, handlerRuns, verify,
                   lookup, environment, principals>>
    /\ UNCHANGED client

\* app.get('/api/health'), app.use('/api/auth', authRoutes), app.use(notFound)
Router ==
    /\ pc = "router"
    /\ LET route == RouteOf(req.method, req.path) IN
       pc' = IF route = "none" THEN "notFound"
             ELSE IF route \in Validated THEN "validate"
             ELSE route
    /\ UNCHANGED <<req, reqUser, res, sender, nextCalls, handlerRuns, verify,
                   lookup, err, environment, principals>>
    /\ UNCHANGED client

appFrame == <<req, reqUser, nextCalls, verify, lookup, err, environment,
              principals>>

Health ==
    /\ pc = "health"
    /\ handlerRuns' = handlerRuns + 1
    /\ Respond("health", Json(200, TRUE, {"success", "message", "timestamp"}, ""))
    /\ UNCHANGED appFrame
    /\ UNCHANGED client

\* validate
Validate ==
    /\ pc = "validate"
    /\ LET route == RouteOf(req.method, req.path) IN
       IF ValidationErrors(route, req.body)
       THEN Respond("validate", Json(400, FALSE, {"success", "errors"}, ""))
       ELSE pc' = route /\ UNCHANGED <<res, sender>>
    /\ UNCHANGED handlerRuns
    /\ UNCHANGED appFrame
    /\ UNCHANGED client

\* What an AuthService method resolves to: every method catches whatever
\* its provider calls throw and returns {success: false, error}.
ServiceResults == {"ok", "fail"}

ServiceFailure(status) == Fail(status, "<error.message>")

\* The call log of the request, one more call made.
Called(name) == Append(service.calls, name)

\* supabase.auth.signUp: an account is created, or an error result comes
\* back (already registered, or a failure of the call) and none is.
SignUpOutcomes(who, accts) ==
    (IF who \in accts THEN {} ELSE {"created"}) \cup {"error"}

\* handle_new_user / on_auth_user_created: the row the trigger leaves for a
\* new account (ON CONFLICT (id) DO NOTHING); fired is whether the trigger
\* is installed in the database the provider writes to.
AfterTrigger(store, who, userType, fired) ==
    IF fired /\ store[who] = "none"
    THEN [store EXCEPT ![who] = userType]
    ELSE store

\* supabase.from('profiles').insert([...]): a second row for an id is a
\* primary-key conflict; otherwise the row goes in, or the insert comes back
\* with an error result (row level security, network).
InsertOutcomes(store, who) ==
    IF store[who] # "none" THEN {"conflict"} ELSE {"inserted", "error"}

\* AuthService.signUp as called by POST /signup
Signup ==
    /\ pc = "signup"
    /\ handlerRuns' = handlerRuns + 1
    /\ IF MissingFields(req.body)
       THEN /\ Respond("signup", Fail(400, "Missing required fields"))
            /\ UNCHANGED <<service, accounts, profiles>>
       ELSE \E out \in SignUpOutcomes(req.who, accounts) :
              IF out = "error"
              THEN /\ service' = [service EXCEPT !.calls = Called("auth.signUp")]
                   /\ Respond("signup", ServiceFailure(400))
                   /\ UNCHANGED <<accounts, profiles>>
              ELSE \E fired \in BOOLEAN :
                   LET store == AfterTrigger(profiles, req.who,
                                             req.body.userType, fired)
                   IN
                   \E ins \in InsertOutcomes(store, req.who) :
                     /\ accounts' = accounts \cup {req.who}
                     /\ service' =
                          [calls |-> service.calls \o
                                     (IF fired
                                      THEN <<"auth.signUp", "handle_new_user",
                                             "profiles.insert">>
                                      ELSE <<"auth.signUp", "profiles.insert">>),
                           created |-> TRUE,
                           dataOf |-> IF ins = "inserted" THEN req.who
                                                          ELSE "none"]
                     /\ IF ins = "inserted"
                        THEN /\ profiles' = [store EXCEPT
                                               ![req.who] = req.body.userType]
                             /\ Respond("signup",
                                   Json(201, TRUE,
                                        {"success", "message", "data"}, ""))
                        ELSE /\ profiles' = store
                             /\ Respond("signup", ServiceFailure(400))
    /\ UNCHANGED <<req, reqUser, nextCalls, verify, lookup, err, validTokens,
                   nodeEnv, principals, session>>

\* supabase.auth.signInWithPassword
SignInOutcomes(who, accts) ==
    (IF who \in accts THEN {"ok"} ELSE {}) \cup {"fail"}

\* AuthService.signIn as called by POST /signin.  The shared client keeps
\* the new session, or not: its storage adapter drops what it is given
\* when there is no window.
Signin ==
    /\ pc = "signin"
    /\ handlerRuns' = handlerRuns + 1
    /\ \E result \in SignInOutcomes(req.who, accounts) :
          IF result = "fail"
          THEN /\ service' = [service EXCEPT
                                !.calls = Called("auth.signInWithPassword")]
               /\ Respond("signin", ServiceFailure(400))
               /\ UNCHANGED session
          ELSE /\ service' = [service EXCEPT
                                !.calls = Called("auth.signInWithPassword"),
                                !.dataOf = req.who]
               /\ session' \in {req.who, session}
               /\ Respond("signin",
                          Json(200, TRUE, {"success", "message", "data"}, ""))
    /\ UNCHANGED appFrame
    /\ UNCHANGED accounts

\* AuthService.signOut as called by POST /signout
Signout ==
    /\ pc = "signout"
    /\ handlerRuns' = handlerRuns + 1
    /\ service' = [service EXCEPT !.calls = Called("auth.signOut")]
    /\ \E result \in ServiceResults :
          IF result = "fail"
          THEN /\ Respond("signout", ServiceFailure(400))
               /\ UNCHANGED session
          ELSE /\ session' = "none"
               /\ Respond("signout", Json(200, TRUE, {"success", "message"}, ""))
    /\ UNCHANGED appFrame
    /\ UNCHANGED accounts

\* AuthService.getSession as called by GET /session: the session of the
\* shared client, null when it holds none.
Session ==
    /\ pc = "session"
    /\ handlerRuns' = handlerRuns + 1
    /\ \E result \in ServiceResults :
          IF result = "fail"
          THEN /\ service' = [service EXCEPT !.calls = Called("auth.getSession")]
               /\ Respond("session", ServiceFailure(401))
          ELSE /\ service' = [service EXCEPT
                                !.calls = Called("auth.getSession"),
                                !.dataOf = session]
               /\ Respond("session", Json(200, TRUE, {"success", "data"}, ""))
    /\ UNCHANGED appFrame
    /\ UNCHANGED <<session, accounts>>

\* supabase.auth.getUser() without a token: the user of the shared client's
\* session; an error result when it holds none.
GetOwnUserOutcomes(sess) ==
    (IF sess = "none" THEN {} ELSE {"ok"}) \cup {"fail"}

\* AuthService.getUser as called by GET /user
User ==
    /\ pc = "user"
    /\ handlerRuns' = handlerRuns + 1
    /\ \E result \in GetOwnUserOutcomes(session) :
          IF result = "fail"
          THEN /\ service' = [service EXCEPT !.calls = Called("auth.getUser")]
               /\ Respond("user", ServiceFailure(401))
          ELSE /\ service' = [service EXCEPT
                                !.calls = Called("auth.getUser"),
                                !.dataOf = session]
               /\ Respond("user", Json(200, TRUE, {"success", "data"}, ""))
    /\ UNCHANGED appFrame
    /\ UNCHANGED <<session, accounts>>

\* AuthService.resetPassword as called by POST /reset-password
ResetPassword ==
    /\ pc = "reset-password"
    /\ handlerRuns' = handlerRuns + 1
    /\ service' = [service EXCEPT
                     !.calls = Called("auth.resetPasswordForEmail")]
    /\ \E result \in ServiceResults :
          IF result = "fail"
          THEN Respond("reset-password", ServiceFailure(400))
          ELSE Respond("reset-password",
                       Json(200, TRUE, {"success", "message"}, ""))
    /\ UNCHANGED appFrame
    /\ UNCHANGED <<session, accounts>>

\* notFound
NotFoundResponse == Fail(404, "Endpoint not found")

NotFound ==
    /\ pc = "notFound"
    /\ Respond("notFound", NotFoundResponse)
    /\ UNCHANGED handlerRuns
    /\ UNCHANGED appFrame
    /\ UNCHANGED client

\* An error handler that sends err.message whatever NODE_ENV is.
ErrorResponseWithMessage(name, env) ==
    CASE name = "JsonWebTokenError" -> Fail(401, "Invalid token")
      [] name = "TokenExpiredError" -> Fail(401, "Token expired")
      [] OTHER ->
            Json(500, FALSE, {"success", "error", "message"},
                 "Something went wrong!")

\* errorHandler
ErrorResponse(name, env) ==
    CASE name = "JsonWebTokenError" -> Fail(401, "Invalid token")
      [] name = "TokenExpiredError" -> Fail(401, "Token expired")
      [] OTHER ->
            Json(500, FALSE,
                 {"success", "error"} \cup
                    (IF env = "development" THEN {"message"} ELSE {}),
                 "Something went wrong!")

ErrorHandler ==
    /\ pc = "errorHandler"
    /\ Respond("errorHandler", ErrorResponse(err, nodeEnv))
    /\ UNCHANGED handlerRuns
    /\ UNCHANGED appFrame
    /\ UNCHANGED client

\* The response is on the wire; the request and its objects are dropped.
Finish ==
    /\ pc = "done"
    /\ pc' = "idle"
    /\ req' = NoRequest
    /\ reqUser' = NoUser
    /\ res' = NoRes
    /\ sender' = "none"
    /\ nextCalls' = NoNext
    /\ handlerRuns' = 0
    /\ verify' = NoVerify
    /\ lookup' = NoLookup
    /\ err' = "none"
    /\ service' = NoService
    /\ UNCHANGED <<environment, principals, session, accounts>>

\* ------------------------------------------------------------ environment
\* A token expires or is revoked at the provider.
ExpireToken ==
    /\ pc = "idle"
    /\ \E t \in validTokens : validTokens' = validTokens \ {t}
    /\ UNCHANGED <<pc, req, reqUser, res, sender, nextCalls, handlerRuns,
                   verify, lookup, err, profiles, nodeEnv, principals>>
    /\ UNCHANGED client

\* A profile row is written, changed or removed in the store (the rows of
\* the users in Changing; the other rows stay as they are).
Changing == {"u1"}

ChangeProfile ==
    /\ pc = "idle"
    /\ \E u \in Changing, r \in Roles \cup {"none"} :
          /\ profiles[u] # r
          /\ profiles' = [profiles EXCEPT ![u] = r]
    /\ UNCHANGED <<pc, req, reqUser, res, sender, nextCalls, handlerRuns,
                   verify, lookup, err, validTokens, nodeEnv, principals>>
    /\ UNCHANGED client

\* The exported middleware mounted on a protected route, with the provider
\* and the profile store changing between requests.
Next ==
    \/ ReceiveChain
    \/ RequireAuth
    \/ RequireRole
    \/ ChainHandler
    \/ ChainHandlerThrows
    \/ ErrorHandler
    \/ Finish
    \/ ExpireToken
    \/ ChangeProfile

Spec == Init /\ [][Next]_vars

\* The express app with its routes and AuthService behind them.
NextApp ==
    \/ ReceiveApp
    \/ Cors
    \/ BodyParser
    \/ Router
    \/ Health
    \/ Validate
    \/ Signup
    \/ Signin
    \/ Signout
    \/ Session
    \/ User
    \/ ResetPassword
    \/ NotFound
    \/ ErrorHandler
    \/ Finish

SpecApp == Init /\ [][NextApp]_vars

\* ================================================================ claims

\* The request in flight went into a chain that starts with requireAuth, and
\* requireAuth has acted on it.
AuthActed == req.kind = "chain" /\ req.withAuth /\ pc # "requireAuth"

\* requireRole has acted on the request in flight.
RoleActed == req.kind = "chain" /\ pc \in {"handler", "done"}
                /\ sender # "requireAuth"

\* The header carries the "Bearer " scheme prefix.
BearerPrefixed(h) ==
    h # NoHeader /\ Len(h) >= 2 /\ SubSeq(h, 1, 2) = <<"Bearer", " ">>

\* C1: a request whose Authorization header is absent or does not start with
\* "Bearer " is answered 401 {success:false, error:"No token, authorization
\* denied"} by requireAuth, which neither calls next nor calls getUser.
C1_MissingCredential ==
    (AuthActed /\ ~BearerPrefixed(req.header)) =>
        /\ pc = "done"
        /\ sender = "requireAuth"
        /\ res = [status |-> 401, success |-> FALSE,
                  keys |-> {"success", "error"},
                  error |-> "No token, authorization denied"]
        /\ nextCalls.auth = 0
        /\ handlerRuns = 0
        /\ verify.calls = 0

C1_Witness ==
    /\ AuthActed
    /\ req.header = <<"abc", " ", "xyz">>
    /\ res.status = 401
    /\ verify.calls = 0

\* C2: a token the provider reports invalid, expired or malformed (an error
\* result, or no user) is answered 401 {success:false, error:"Token is not
\* valid"}; next is not called and req.user is not set.
C2_InvalidCredential ==
    (AuthActed /\ verify.outcome \in {"invalid", "nouser"}) =>
        /\ pc = "done"
        /\ sender = "requireAuth"
        /\ res = [status |-> 401, success |-> FALSE,
                  keys |-> {"success", "error"},
                  error |-> "Token is not valid"]
        /\ nextCalls.auth = 0
        /\ handlerRuns = 0
        /\ reqUser = NoUser

C2_Witness ==
    /\ AuthActed
    /\ verify.token = <<"abc">>
    /\ verify.outcome = "nouser"
    /\ res.status = 401

\* C3: a getUser call that fails transiently, thrown or returned as an error
\* result, is answered 500 {success:false, error:"Server error during
\* authentication"}, never 401.
C3_ProviderUnavailable ==
    (AuthActed /\ verify.outcome \in {"transient", "throw"}) =>
        /\ res.status = 500
        /\ res.error = "Server error during authentication"

\* C4: for a token the provider reports valid, requireAuth calls next exactly
\* once with req.user set to the user the provider reported and sends no
\* response; two runs with the same token attach equal principals.
C4_ValidCredential ==
    /\ (AuthActed /\ verify.outcome = "user") =>
          /\ nextCalls.auth = 1
          /\ sender # "requireAuth"
          /\ reqUser.id = verify.user.id
          /\ reqUser.email = verify.user.email
          /\ verify.user.id = TokenUser(verify.token)
          /\ pc = "requireRole" => (reqUser = verify.user /\ res = NoRes)
    /\ \A p, q \in principals :
          p.token = q.token => p.principal = q.principal

C4_Witness ==
    /\ pc = "requireRole"
    /\ verify.outcome = "user"
    /\ reqUser.id = "u2"
    /\ \E p \in principals :
          p.token = verify.token /\ p.run = 2 /\ p.principal = reqUser

\* C5: a principal with no matching profile row (lookup error or no row) is
\* answered 403 {success:false, error:"Access denied. User profile not
\* found."} and next is not called, whatever roles is.
C5_ProfileNotFound ==
    (RoleActed /\ lookup.outcome \in {"norow", "error"}) =>
        /\ pc = "done"
        /\ sender = "requireRole"
        /\ res = [status |-> 403, success |-> FALSE,
                  keys |-> {"success", "error"},
                  error |-> "Access denied. User profile not found."]
        /\ nextCalls.role = 0
        /\ handlerRuns = 0

C5_Witness ==
    /\ RoleActed
    /\ lookup.outcome = "norow"
    /\ req.roles = {}
    /\ res.status = 403

\* C6: when the profile resolves to a role: a non-empty roles that does not
\* contain it is answered 403 {success:false, error:"Access denied.
\* Insufficient permissions."} without calling next; an empty roles lets
\* every resolved role through to next.
C6_InsufficientRole ==
    (RoleActed /\ lookup.outcome = "row") =>
        /\ lookup.role \in Roles
        /\ (req.roles # {} /\ lookup.role \notin req.roles) =>
              /\ pc = "done"
              /\ sender = "requireRole"
              /\ res = [status |-> 403, success |-> FALSE,
                        keys |-> {"success", "error"},
                        error |-> "Access denied. Insufficient permissions."]
              /\ nextCalls.role = 0
              /\ handlerRuns = 0
        /\ req.roles = {} => (nextCalls.role = 1 /\ sender # "requireRole")

C6_Witness ==
    /\ RoleActed
    /\ verify.token = <<"abc">>
    /\ reqUser.id = "u1"
    /\ lookup.role = "HUSTLER"
    /\ req.roles = {"ADMIN"}
    /\ res.status = 403

\* C7: whenever requireRole calls next, req.user.role is the role the profile
\* store returned for req.user.id in this request, and that role is in roles
\* or roles is empty.
C7_RoleAttached ==
    nextCalls.role > 0 =>
        /\ nextCalls.role = 1
        /\ lookup.outcome = "row"
        /\ reqUser.role = lookup.role
        /\ lookup.role = profiles[reqUser.id]
        /\ (lookup.role \in req.roles \/ req.roles = {})

C7_Witness ==
    /\ pc = "handler"
    /\ reqUser.id = "u2"
    /\ req.roles = {"ADMIN"}
    /\ reqUser.role = "ADMIN"

\* The status / body.error pairs of the mapping table of section 4.3.
MappingTable ==
    {<<401, "No token, authorization denied">>,
     <<401, "Token is not valid">>,
     <<500, "Server error during authentication">>,
     <<403, "Access denied. User profile not found.">>,
     <<403, "Access denied. Insufficient permissions.">>,
     <<404, "Endpoint not found">>,
     <<500, "Something went wrong!">>}

\* The handler ran only after getUser returned a user and the role lookup
\* returned a role that roles admits.
HandlerOnlyWhenPermitted ==
    (req.kind = "chain" /\ handlerRuns > 0) =>
        /\ handlerRuns = 1
        /\ req.withAuth
        /\ verify.outcome = "user"
        /\ lookup.outcome = "row"
        /\ (lookup.role \in req.roles \/ req.roles = {})

\* C8 as stated: in the chain requireAuth, requireRole(roles), handler, every
\* failure is answered by the middleware with a pair of the mapping table
\* and the handler does not run; the handler runs only when permitted.
C8_FailuresInTable ==
    /\ (req.kind = "chain" /\ req.withAuth /\ pc = "done"
            /\ sender \in {"requireAuth", "requireRole"}) =>
          /\ ~res.success
          /\ <<res.status, res.error>> \in MappingTable
          /\ handlerRuns = 0
    /\ HandlerOnlyWhenPermitted

\* C8 amended: every failure of requireAuth or requireRole is answered by the
\* middleware itself with {success:false, error} and the handler does not
\* run; the pair is one of the mapping table, or 401 "Authentication
\* required" when requireRole runs with no principal, or 500 "Server error
\* during authorization" when the lookup throws inside requireRole; the
\* handler runs only when permitted.
C8_FailuresRecovered ==
    /\ (req.kind = "chain" /\ pc = "done"
            /\ sender \in {"requireAuth", "requireRole"}) =>
          /\ ~res.success
          /\ res.keys = {"success", "error"}
          /\ handlerRuns = 0
          /\ IF sender = "requireRole" /\ lookup.calls = 0
             THEN <<res.status, res.error>> = <<401, "Authentication required">>
             ELSE IF lookup.outcome = "throw"
             THEN <<res.status, res.error>> =
                      <<500, "Server error during authorization">>
             ELSE <<res.status, res.error>> \in MappingTable
    /\ (req.kind = "chain" /\ pc = "done" /\ sender = "handler") => res.success
    /\ HandlerOnlyWhenPermitted

C8_Witness ==
    /\ req.kind = "chain"
    /\ req.withAuth
    /\ pc = "done"
    /\ sender = "requireRole"
    /\ verify.outcome = "user"
    /\ lookup.outcome = "throw"
    /\ res.status = 500
    /\ handlerRuns = 0

\* C9: every response of the facade has one of the two envelope shapes,
\* {success:true, data} or {success:false, error}.
C9_Envelope ==
    (req.kind = "app" /\ pc = "done" /\ sender # "cors") =>
        IF res.success THEN "data" \in res.keys ELSE "error" \in res.keys

\* The method / path pairs the app registers a route for.
Registered ==
    {<<"GET", "/api/health">>, <<"HEAD", "/api/health">>,
     <<"POST", "/api/auth/signup">>, <<"POST", "/api/auth/signin">>,
     <<"POST", "/api/auth/signout">>,
     <<"GET", "/api/auth/session">>, <<"HEAD", "/api/auth/session">>,
     <<"GET", "/api/auth/user">>, <<"HEAD", "/api/auth/user">>,
     <<"POST", "/api/auth/reset-password">>}

NotFoundBody ==
    [status |-> 404, success |-> FALSE, keys |-> {"success", "error"},
     error |-> "Endpoint not found"]

\* C10 as stated: every request that matches no registered route is answered
\* 404 {success:false, error:"Endpoint not found"}, and no request that
\* matches a registered route reaches notFound.
C10_UnknownRoute ==
    (req.kind = "app" /\ pc = "done") =>
        /\ <<req.method, req.path>> \notin Registered => res = NotFoundBody
        /\ <<req.method, req.path>> \in Registered => sender # "notFound"

\* C10 amended: every request that gets past the global middleware (it is
\* not a CORS preflight, which cors answers 204, and its body parses, else
\* errorHandler answers) and matches no registered route is answered 404
\* {success:false, error:"Endpoint not found"}; no request that matches a
\* registered route reaches notFound.
C10_UnknownRoutePastGlobals ==
    /\ (req.kind = "app" /\ pc = "done") =>
          /\ (/\ <<req.method, req.path>> \notin Registered
              /\ req.method # "OPTIONS"
              /\ req.fault = "none") =>
                 (res = NotFoundBody /\ sender = "notFound" /\ handlerRuns = 0)
          /\ <<req.method, req.path>> \in Registered => sender # "notFound"
    /\ pc = "notFound" => <<req.method, req.path>> \notin Registered

C10_Witness ==
    /\ req.kind = "app"
    /\ pc = "done"
    /\ req.method = "GET"
    /\ req.path = "/api/auth/signup"
    /\ sender = "notFound"
    /\ res.status = 404

\* C11 as stated: every error that reaches errorHandler, whatever its name,
\* is answered 500 "Something went wrong!", with the error's message in the
\* body only when the build is not production.
C11_AnyErrorIs500 ==
    sender = "errorHandler" =>
        /\ res.status = 500
        /\ res.error = "Something went wrong!"
        /\ "message" \in res.keys => nodeEnv # "production"

\* C11 amended: an error named JsonWebTokenError is answered 401 "Invalid
\* token" and one named TokenExpiredError 401 "Token expired"; every other
\* error is answered 500 "Something went wrong!"; the error's message is in
\* the body only when NODE_ENV is development (so never in production), and
\* the stack never is.
C11_ErrorFallback ==
    sender = "errorHandler" =>
        /\ ~res.success
        /\ IF err = "JsonWebTokenError"
           THEN <<res.status, res.error>> = <<401, "Invalid token">>
           ELSE IF err = "TokenExpiredError"
           THEN <<res.status, res.error>> = <<401, "Token expired">>
           ELSE <<res.status, res.error>> = <<500, "Something went wrong!">>
        /\ res.keys \subseteq {"success", "error", "message"}
        /\ "message" \in res.keys => (nodeEnv = "development" /\ res.status = 500)

C11_Witness ==
    /\ sender = "errorHandler"
    /\ err = "TypeError"
    /\ nodeEnv = "development"
    /\ "message" \in res.keys
    /\ res.status = 500

\* The three routes that mount validate, by path.
ValidatedPaths ==
    {"/api/auth/signup", "/api/auth/signin", "/api/auth/reset-password"}

\* The body breaks a rule of the route's validators.
FailsValidation(path, b) ==
    \/ b.email = "bad"
    \/ path = "/api/auth/signup" /\ b.password \in {"absent", "short"}
    \/ path = "/api/auth/signup" /\ ~(b.firstName /\ b.lastName)
    \/ path = "/api/auth/signup" /\ b.userType \notin {"CUSTOMER", "HUSTLER"}
    \/ path = "/api/auth/signin" /\ b.password = "absent"

\* The request went past the validate stage of a validated route.
PastValidate ==
    /\ req.kind = "app"
    /\ req.method = "POST"
    /\ req.path \in ValidatedPaths
    /\ \/ pc \in {"signup", "signin", "reset-password"}
       \/ pc = "done" /\ sender \notin {"cors", "errorHandler"}

\* C12: a POST /signup, /signin or /reset-password whose body fails
\* validation is answered 400 by validate before any identity-provider or
\* profile-store call; a request that ends with a validation failure has
\* made no provider call.
C12_ValidationFirst ==
    /\ (PastValidate /\ FailsValidation(req.path, req.body)) =>
          /\ pc = "done"
          /\ sender = "validate"
          /\ res.status = 400
          /\ ~res.success
          /\ handlerRuns = 0
          /\ service = NoService
    /\ sender = "validate" => (service.calls = <<>> /\ ~service.created)

C12_Witness ==
    /\ PastValidate
    /\ req.path = "/api/auth/signup"
    /\ req.body = [email |-> "ok", password |-> "short", firstName |-> TRUE,
                   lastName |-> TRUE, userType |-> "CUSTOMER"]
    /\ sender = "validate"
    /\ res.status = 400
    /\ service.calls = <<>>

\* C13: a request with a well-formed Bearer header makes exactly one getUser
\* call and a requireRole run with a principal exactly one role lookup
\* (nothing reused, nothing retried), and each is decided by what the
\* provider and the store hold at that request.
C13_FreshCalls ==
    /\ verify.calls <= 1
    /\ lookup.calls <= 1
    /\ (AuthActed /\ BearerPrefixed(req.header)) => verify.calls = 1
    /\ (AuthActed /\ ~BearerPrefixed(req.header)) => verify.calls = 0
    /\ (req.kind = "chain" /\ nextCalls.auth = 1 /\ pc # "requireRole") =>
          lookup.calls = 1
    /\ verify.outcome = "user" => verify.token \in validTokens
    /\ verify.outcome \in {"invalid", "nouser"} => verify.token \notin validTokens
    /\ lookup.outcome = "row" => lookup.role = profiles[reqUser.id]
    /\ lookup.outcome = "norow" => profiles[reqUser.id] = "none"

C13_Witness ==
    /\ pc = "handler"
    /\ reqUser.id = "u1"
    /\ \E p \in principals : p.token = <<"abc">> /\ p.run = 2
    /\ profiles["u1"] = "ADMIN"
    /\ req.roles = {"ADMIN"}
    /\ lookup.role = "ADMIN"
    /\ verify.calls = 1
    /\ lookup.calls = 1

\* C14: the token passed to getUser is the whole of the header after the
\* "Bearer " prefix, spaces included.
C14_WholeToken ==
    verify.calls > 0 =>
        verify.token = SubSeq(req.header, 3, Len(req.header))

\* C15: the handlers of POST /signout, GET /session and GET /user run only
\* for a request whose own bearer credential was verified, and the data they
\* return is that of the requesting principal.
C15_PrivateRoutes ==
    (req.kind = "app" /\ sender \in {"signout", "session", "user"}) =>
        /\ verify.outcome = "user"
        /\ service.dataOf # "none" => service.dataOf = reqUser.id

\* C16: when signUp reports failure no account was created by that call, and
\* after a successful signUp the new id has its profile row.
C16_SignUpFailureMeansNoAccount ==
    (req.kind = "app" /\ sender = "signup") =>
        /\ ~res.success => ~service.created
        /\ res.success => (req.who \in accounts /\ profiles[req.who] \in Roles)

====
